---- MODULE Spec2Model ----
(***************************************************************************)
(* Model of waybar::Group (src/src/group.cpp): the drawer's reveal state,  *)
(* the pointer/click/refresh handlers run by the GTK main thread, and the  *)
(* body of the util::SleeperThread worker that auto-hides the drawer.      *)
(*                                                                         *)
(* The handlers and the worker share free_, reset_, the PRELIGHT flag of   *)
(* box and the reveal_child property of revealer.  group.cpp takes no lock *)
(* around them, so every single read or write of a shared field is one     *)
(* step and the steps of the two threads interleave freely.                *)
(***************************************************************************)
EXTENDS Naturals, FiniteSets, Sequences, TLC

VARIABLES
  is_drawer,        \* config_["drawer"].isObject()
  click_to_reveal,  \* drawer_config["click-to-reveal"].asBool()
  finite,           \* interval_ is a number of seconds (not seconds::max())
  free_,            \* pointer is outside the group
  reset_,           \* a refresh asked for a reveal
  prelight,         \* STATE_FLAG_PRELIGHT of box (the active marker)
  reveal,           \* revealer.get_reveal_child()
  do_run_,          \* SleeperThread: cleared by stop()
  signal_,          \* SleeperThread: set by wake_up() and stop()
  mpc,              \* position of the main (event) thread
  last,             \* the event the main thread dispatched last
  tpc,              \* position of the worker thread
  woke,             \* how the worker's last sleep_for ended
  unobs,            \* history: reset_ was written by refresh and not yet read in step 1
  armed,            \* history: wake_up() ran while the worker was blocked and reset_ was set
  clicks,           \* history: primary clicks toggled so far, modulo 2
  quiet,            \* history: no pointer-enter, toggle or accepted trigger yet
  is_first_widget,  \* no child was added yet
  box,              \* children packed into box, in order
  revealer_box,     \* children packed into revealer_box, in order
  classes           \* children tagged with add_class_to_drawer_children

vars == <<is_drawer, click_to_reveal, finite, free_, reset_, prelight, reveal,
          do_run_, signal_, mpc, last, tpc, woke, unobs, armed, clicks, quiet,
          is_first_widget, box, revealer_box, classes>>

\* The child containers and what addWidget keeps about them.
widgets == <<is_first_widget, box, revealer_box, classes>>

config == <<is_drawer, click_to_reveal, finite>>

\* The number of children added to one Group.
MaxChildren == 3

\* The buttons a GdkEventButton is delivered with: primary and secondary.
Buttons == {1, 3}

\* The codes refresh() is called with: the configured one and another one.
Codes == {"configured", "other"}

\* The worker exists only for a drawer that is not click-to-reveal (line 83).
HoverMode == is_drawer /\ ~click_to_reveal

\* thread_ assigned for every drawer, the click_to_reveal test forgotten
thread_started_any_drawer == is_drawer

\* thread_ is given its function, which starts the worker (lines 52, 83, 87).
thread_started == is_drawer /\ ~click_to_reveal

----------------------------------------------------------------------------
(* Construction.  free_ and reset_ get no value in the constructor; they    *)
(* start from their member initialisers (pointer outside, nothing asked).  *)
(* util::SleeperThread is modelled by its contract: the worker repeats the *)
(* lambda while do_run_ holds, sleep_for returns on wake_up(), on stop() or *)
(* when the interval elapses, and a wake issued before sleep_for is kept.  *)

Init ==
  /\ is_drawer \in BOOLEAN
  /\ click_to_reveal \in BOOLEAN
  /\ finite \in BOOLEAN
  /\ (~is_drawer => ~click_to_reveal)
  /\ (~(is_drawer /\ ~click_to_reveal) => ~finite)
  /\ free_ = TRUE
  /\ reset_ = FALSE
  /\ prelight = FALSE
  /\ reveal = FALSE
  /\ do_run_ = TRUE
  /\ signal_ = FALSE
  /\ mpc = "idle"
  /\ last = "none"
  /\ tpc = IF thread_started THEN "loop" ELSE "none"
  /\ woke = "none"
  /\ unobs = FALSE
  /\ armed = FALSE
  /\ clicks = 0
  /\ quiet = TRUE
  /\ is_first_widget = TRUE
  /\ box = << >>
  /\ revealer_box = << >>
  /\ classes = {}

----------------------------------------------------------------------------
(* show_group / hide_group, one toolkit call per step *)

show_group_flags == prelight' = TRUE

show_group_reveal == reveal' = TRUE

\* hide_group flipping the marker instead of unsetting it
hide_group_flags_toggled == prelight' = ~prelight

hide_group_flags == prelight' = FALSE

\* hide_group with the argument of show_group pasted in
hide_group_reveal_pasted == reveal' = TRUE

hide_group_reveal == reveal' = FALSE

----------------------------------------------------------------------------
(* The main thread: handlers *)

\* handleMouseEnter without its click_to_reveal guard
handleMouseEnter_unguarded ==
  /\ mpc = "idle"
  /\ last' = "enter"
  /\ free_' = FALSE
  /\ mpc' = "show_flags"
  /\ armed' = FALSE
  /\ unobs' = FALSE
  /\ quiet' = FALSE
  /\ UNCHANGED <<widgets, clicks, config, reset_, prelight, reveal, do_run_, signal_, tpc, woke>>

handleMouseEnter ==
  /\ mpc = "idle"
  /\ last' = "enter"
  /\ IF ~click_to_reveal
       THEN /\ free_' = FALSE
            /\ mpc' = "show_flags"
            /\ armed' = FALSE
            /\ unobs' = FALSE
            /\ quiet' = FALSE
       ELSE UNCHANGED <<free_, mpc, armed, unobs, quiet>>
  /\ UNCHANGED <<widgets, clicks, config, reset_, prelight, reveal, do_run_, signal_, tpc, woke>>

handleMouseLeave ==
  /\ mpc = "idle"
  /\ \E inferior \in BOOLEAN :
       /\ last' = IF inferior THEN "leave_inferior" ELSE "leave"
       /\ IF ~click_to_reveal /\ ~inferior
            THEN /\ free_' = TRUE
                 /\ mpc' = "hide_flags"
            ELSE UNCHANGED <<free_, mpc>>
  /\ UNCHANGED <<widgets, clicks, quiet, config, reset_, prelight, reveal, do_run_, signal_, tpc, woke, unobs, armed>>

\* handleToggle that never tests e->button
handleToggleTarget_any_button(button) ==
  IF ~click_to_reveal
    THEN "idle"
    ELSE IF prelight THEN "hide_flags" ELSE "show_flags"

\* handleToggle that never tests the PRELIGHT flag
handleToggleTarget_show_only(button) ==
  IF ~click_to_reveal \/ button # 1
    THEN "idle"
    ELSE "show_flags"

\* The position handleToggle(button) leaves the main thread at: "idle" when it
\* returns false, else the first call of hide_group or of show_group.
handleToggleTarget(button) ==
  IF ~click_to_reveal \/ button # 1
    THEN "idle"
    ELSE IF prelight THEN "hide_flags" ELSE "show_flags"

handleToggle ==
  /\ mpc = "idle"
  /\ \E button \in Buttons :
       /\ last' = IF button = 1 THEN "click_primary" ELSE "click_other"
       /\ mpc' = handleToggleTarget(button)
       /\ clicks' = IF handleToggleTarget(button) # "idle" THEN (clicks + 1) % 2 ELSE clicks
       /\ quiet' = (quiet /\ handleToggleTarget(button) = "idle")
  /\ UNCHANGED <<widgets, config, free_, reset_, prelight, reveal, do_run_, signal_, tpc, woke,
                 unobs, armed>>

\* refresh without its test of free_
refresh_unchecked ==
  /\ mpc = "idle"
  /\ \E sig \in Codes :
       /\ last' = IF sig = "configured" THEN "refresh_match" ELSE "refresh_other"
       /\ IF sig = "configured"
            THEN IF handleToggleTarget(1) # "idle"
                   THEN /\ mpc' = handleToggleTarget(1)
                        /\ clicks' = (clicks + 1) % 2
                        /\ quiet' = FALSE
                   ELSE /\ mpc' = "refresh_reset"
                        /\ clicks' = clicks
                        /\ quiet' = FALSE
            ELSE /\ mpc' = "idle"
                 /\ UNCHANGED <<clicks, quiet>>
  /\ UNCHANGED <<widgets, config, free_, reset_, prelight, reveal, do_run_, signal_, tpc, woke,
                 unobs, armed>>

refresh ==
  /\ mpc = "idle"
  /\ \E sig \in Codes :
       /\ last' = IF sig = "configured" THEN "refresh_match" ELSE "refresh_other"
       /\ IF sig = "configured"
            THEN IF handleToggleTarget(1) # "idle"
                   THEN /\ mpc' = handleToggleTarget(1)
                        /\ clicks' = (clicks + 1) % 2
                        /\ quiet' = FALSE
                   ELSE /\ IF free_ THEN mpc' = "refresh_reset" ELSE mpc' = "idle"
                        /\ clicks' = clicks
                        /\ quiet' = (quiet /\ ~free_)
            ELSE /\ mpc' = "idle"
                 /\ UNCHANGED <<clicks, quiet>>
  /\ UNCHANGED <<widgets, config, free_, reset_, prelight, reveal, do_run_, signal_, tpc, woke,
                 unobs, armed>>

refresh_reset ==
  /\ mpc = "refresh_reset"
  /\ reset_' = TRUE
  /\ unobs' = TRUE
  /\ mpc' = "refresh_wake"
  /\ UNCHANGED <<widgets, clicks, quiet, config, free_, prelight, reveal, do_run_, signal_, last, tpc, woke, armed>>

\* thread_.wake_up()
wake_up ==
  /\ mpc = "refresh_wake"
  /\ signal_' = TRUE
  /\ armed' = (armed \/ (tpc = "sleep" /\ reset_ /\ free_))
  /\ mpc' = "idle"
  /\ UNCHANGED <<widgets, clicks, quiet, config, free_, reset_, prelight, reveal, do_run_, last, tpc, woke, unobs>>

main_show_flags ==
  /\ mpc = "show_flags"
  /\ show_group_flags
  /\ mpc' = "show_reveal"
  /\ UNCHANGED <<widgets, clicks, quiet, config, free_, reset_, reveal, do_run_, signal_, last, tpc, woke,
                 unobs, armed>>

main_show_reveal ==
  /\ mpc = "show_reveal"
  /\ show_group_reveal
  /\ mpc' = "idle"
  /\ UNCHANGED <<widgets, clicks, quiet, config, free_, reset_, prelight, do_run_, signal_, last, tpc, woke,
                 unobs, armed>>

main_hide_flags ==
  /\ mpc = "hide_flags"
  /\ hide_group_flags
  /\ mpc' = "hide_reveal"
  /\ UNCHANGED <<widgets, clicks, quiet, config, free_, reset_, reveal, do_run_, signal_, last, tpc, woke,
                 unobs, armed>>

main_hide_reveal ==
  /\ mpc = "hide_reveal"
  /\ hide_group_reveal
  /\ mpc' = "idle"
  /\ UNCHANGED <<widgets, clicks, quiet, config, free_, reset_, prelight, do_run_, signal_, last, tpc, woke,
                 unobs, armed>>

\* getBox with the two containers of a drawer exchanged
getBox_exchanged ==
  IF is_drawer THEN (IF is_first_widget THEN "revealer_box" ELSE "box") ELSE "box"

\* The container getBox() returns.
getBox == IF is_drawer THEN (IF is_first_widget THEN "box" ELSE "revealer_box") ELSE "box"

\* addWidget(widget) for a widget not added before; widgets are numbered in
\* the order of the calls.
addWidget ==
  /\ mpc = "idle"
  /\ Len(box) + Len(revealer_box) < MaxChildren
  /\ LET widget == Len(box) + Len(revealer_box) + 1 IN
       /\ IF getBox = "box"
            THEN box' = Append(box, widget) /\ revealer_box' = revealer_box
            ELSE revealer_box' = Append(revealer_box, widget) /\ box' = box
       /\ classes' = IF is_drawer /\ ~is_first_widget THEN classes \cup {widget} ELSE classes
  /\ is_first_widget' = FALSE
  /\ UNCHANGED <<clicks, quiet, config, free_, reset_, prelight, reveal, do_run_, signal_,
                 mpc, last, tpc, woke, unobs, armed>>

\* Destruction of the Group: ~SleeperThread calls stop() and then joins.
stop ==
  /\ mpc = "idle"
  /\ signal_' = TRUE
  /\ do_run_' = FALSE
  /\ armed' = FALSE
  /\ mpc' = "joining"
  /\ last' = "destroy"
  /\ UNCHANGED <<widgets, clicks, quiet, config, free_, reset_, prelight, reveal, tpc, woke, unobs>>

join ==
  /\ mpc = "joining"
  /\ tpc \in {"done", "none"}
  /\ mpc' = "destroyed"
  /\ UNCHANGED <<widgets, clicks, quiet, config, free_, reset_, prelight, reveal, do_run_, signal_, last, tpc,
                 woke, unobs, armed>>

----------------------------------------------------------------------------
(* The worker thread: while (do_run_) { signal_ = false; func(); } *)

thread_loop ==
  /\ tpc = "loop"
  /\ tpc' = IF do_run_ THEN "clear_signal" ELSE "done"
  /\ UNCHANGED <<widgets, clicks, quiet, config, free_, reset_, prelight, reveal, do_run_, signal_, mpc, last,
                 woke, unobs, armed>>

thread_clear_signal ==
  /\ tpc = "clear_signal"
  /\ signal_' = FALSE
  /\ tpc' = "step1_free"
  /\ UNCHANGED <<widgets, clicks, quiet, config, free_, reset_, prelight, reveal, do_run_, mpc, last, woke,
                 unobs, armed>>

\* if (free_ && reset_): the left operand
step1_free ==
  /\ tpc = "step1_free"
  /\ tpc' = IF free_ THEN "step1_reset" ELSE "sleep"
  /\ UNCHANGED <<widgets, clicks, quiet, config, free_, reset_, prelight, reveal, do_run_, signal_, mpc, last,
                 woke, unobs, armed>>

\* step 1 written as if (free_) show_group();
step1_reset_ignored ==
  /\ tpc = "step1_reset"
  /\ tpc' = "thread_show_flags"
  /\ unobs' = FALSE
  /\ UNCHANGED <<widgets, clicks, quiet, config, free_, reset_, prelight, reveal, do_run_,
                 signal_, mpc, last, woke, armed>>

\* if (free_ && reset_): the right operand
step1_reset ==
  /\ tpc = "step1_reset"
  /\ tpc' = IF reset_ THEN "thread_show_flags" ELSE "sleep"
  /\ unobs' = IF reset_ THEN FALSE ELSE unobs
  /\ UNCHANGED <<widgets, clicks, quiet, config, free_, reset_, prelight, reveal, do_run_, signal_, mpc, last,
                 woke, armed>>

thread_show_flags ==
  /\ tpc = "thread_show_flags"
  /\ show_group_flags
  /\ tpc' = "thread_show_reveal"
  /\ UNCHANGED <<widgets, clicks, quiet, config, free_, reset_, reveal, do_run_, signal_, mpc, last, woke,
                 unobs, armed>>

thread_show_reveal ==
  /\ tpc = "thread_show_reveal"
  /\ show_group_reveal
  /\ armed' = FALSE
  /\ tpc' = "clear_reset"
  /\ UNCHANGED <<widgets, clicks, quiet, config, free_, reset_, prelight, do_run_, signal_, mpc, last, woke,
                 unobs>>

\* the lambda without its reset_=false
clear_reset_forgotten ==
  /\ tpc = "clear_reset"
  /\ reset_' = reset_
  /\ tpc' = "sleep"
  /\ UNCHANGED <<widgets, clicks, quiet, config, free_, prelight, reveal, do_run_, signal_,
                 mpc, last, woke, unobs, armed>>

\* reset_=false;
clear_reset ==
  /\ tpc = "clear_reset"
  /\ reset_' = FALSE
  /\ tpc' = "sleep"
  /\ UNCHANGED <<widgets, clicks, quiet, config, free_, prelight, reveal, do_run_, signal_, mpc, last, woke,
                 unobs, armed>>

\* thread_.sleep_for(interval_) returning because it was woken
sleep_for ==
  /\ tpc = "sleep"
  /\ signal_ \/ ~do_run_
  /\ woke' = "signal"
  /\ tpc' = "step3_free"
  /\ UNCHANGED <<widgets, clicks, quiet, config, free_, reset_, prelight, reveal, do_run_, signal_, mpc, last,
                 unobs, armed>>

\* thread_.sleep_for(interval_) returning because interval_ elapsed
sleep_timeout ==
  /\ tpc = "sleep"
  /\ finite
  /\ ~(signal_ \/ ~do_run_)
  /\ woke' = "timeout"
  /\ tpc' = "step3_free"
  /\ UNCHANGED <<widgets, clicks, quiet, config, free_, reset_, prelight, reveal, do_run_, signal_, mpc, last,
                 unobs, armed>>

\* the lambda looping by itself instead of returning to the worker's loop
step3_free_looping ==
  /\ tpc = "step3_free"
  /\ tpc' = IF free_ THEN "step3_reset" ELSE "step1_free"
  /\ UNCHANGED <<widgets, clicks, quiet, config, free_, reset_, prelight, reveal, do_run_, signal_, mpc, last,
                 woke, unobs, armed>>

\* if (free_ && !reset_): the left operand
step3_free ==
  /\ tpc = "step3_free"
  /\ tpc' = IF free_ THEN "step3_reset" ELSE "loop"
  /\ UNCHANGED <<widgets, clicks, quiet, config, free_, reset_, prelight, reveal, do_run_, signal_, mpc, last,
                 woke, unobs, armed>>

\* step 3 written as if (free_) hide_group();
step3_reset_ignored ==
  /\ tpc = "step3_reset"
  /\ tpc' = "thread_hide_flags"
  /\ UNCHANGED <<widgets, clicks, quiet, config, free_, reset_, prelight, reveal, do_run_, signal_, mpc, last,
                 woke, unobs, armed>>

\* if (free_ && !reset_): the right operand
step3_reset ==
  /\ tpc = "step3_reset"
  /\ tpc' = IF ~reset_ THEN "thread_hide_flags" ELSE "loop"
  /\ UNCHANGED <<widgets, clicks, quiet, config, free_, reset_, prelight, reveal, do_run_, signal_, mpc, last,
                 woke, unobs, armed>>

thread_hide_flags ==
  /\ tpc = "thread_hide_flags"
  /\ hide_group_flags
  /\ tpc' = "thread_hide_reveal"
  /\ UNCHANGED <<widgets, clicks, quiet, config, free_, reset_, reveal, do_run_, signal_, mpc, last, woke,
                 unobs, armed>>

thread_hide_reveal ==
  /\ tpc = "thread_hide_reveal"
  /\ hide_group_reveal
  /\ tpc' = "loop"
  /\ UNCHANGED <<widgets, clicks, quiet, config, free_, reset_, prelight, do_run_, signal_, mpc, last, woke,
                 unobs, armed>>

----------------------------------------------------------------------------

Main ==
  \/ handleMouseEnter
  \/ handleMouseLeave
  \/ handleToggle
  \/ refresh
  \/ addWidget
  \/ refresh_reset
  \/ wake_up
  \/ main_show_flags
  \/ main_show_reveal
  \/ main_hide_flags
  \/ main_hide_reveal
  \/ stop
  \/ join

Thread ==
  \/ thread_loop
  \/ thread_clear_signal
  \/ step1_free
  \/ step1_reset
  \/ thread_show_flags
  \/ thread_show_reveal
  \/ clear_reset
  \/ sleep_for
  \/ sleep_timeout
  \/ step3_free
  \/ step3_reset
  \/ thread_hide_flags
  \/ thread_hide_reveal

Next == Main \/ Thread

Spec == Init /\ [][Next]_vars

\* The worker is an operating-system thread: it is scheduled as long as it can
\* run, and a finite interval_ does elapse.
FairSpec == Spec /\ WF_vars(Thread)

----------------------------------------------------------------------------
(* Properties *)

\* The main thread is between two accesses of a handler to the shared fields.
MainAccessing ==
  mpc \in {"show_flags", "show_reveal", "hide_flags", "hide_reveal", "refresh_reset"}

\* The worker is inside the body of its lambda, outside sleep_for.
ThreadAccessing ==
  tpc \in {"step1_free", "step1_reset", "thread_show_flags", "thread_show_reveal",
           "clear_reset", "step3_free", "step3_reset", "thread_hide_flags",
           "thread_hide_reveal"}

\* C1 - Hover precedence (enter): in hover mode, once handleMouseEnter has
\* completed (free_ = false, the main thread idle again) the drawer is Revealed
\* and stays so while the pointer is inside, whatever the worker had pending.
C1_HoverEnterPrecedence ==
  (HoverMode /\ mpc = "idle" /\ ~free_) => reveal

\* C2 - Pointer-leave precedence: in hover mode, at the step that completes a
\* pointer-leave not into a descendant, free_ is true and the drawer is Hidden,
\* whatever the worker is doing.
C2_LeavePrecedence ==
  [][(HoverMode /\ last = "leave" /\ mpc = "hide_reveal" /\ mpc' = "idle")
       => (free_' /\ ~reveal')]_vars

\* A full leave has just completed while the worker is in the middle of its
\* step-1 reveal.
C2_Witness ==
  /\ HoverMode /\ last = "leave" /\ mpc = "idle"
  /\ free_ /\ ~reveal
  /\ tpc = "thread_show_reveal"

\* C3 - No lost wake-up (sleeping worker): in hover mode, after refresh has set
\* reset_ and called wake_up() while the pointer is free and the worker is
\* blocked in sleep_for, and for as long as the pointer stays free and the Group
\* is alive: the request stays pending, the worker's sleep ends by the signal
\* and not by expiry, the worker does not go into hide_group on that wake and
\* does not terminate, so that its next step 1 finds free_ and reset_ set and
\* goes into show_group.
C3_NoLostWakeUp ==
  armed =>
    /\ HoverMode /\ free_ /\ reset_ /\ do_run_
    /\ (tpc = "sleep" => signal_)
    /\ (tpc \in {"step3_free", "step3_reset"} => woke = "signal")
    /\ tpc \in {"sleep", "step3_free", "step3_reset", "loop", "clear_signal",
                "step1_free", "step1_reset", "thread_show_flags", "thread_show_reveal"}

\* The worker, woken by the signal of an accepted trigger, is revealing the
\* drawer in the step 1 that follows.
C3_Witness ==
  armed /\ woke = "signal" /\ tpc = "thread_show_reveal" /\ prelight /\ ~reveal

\* C4 - Trigger ordering guarantee: the worker never clears reset_ while a
\* request written by refresh has not been read by its step 1, and, with the
\* pointer free since the trigger was delivered, it never blocks in sleep_for
\* with such a request unread.
C4_TriggerObserved ==
  /\ [][(reset_ /\ ~reset_') => ~unobs]_vars
  /\ []((HoverMode /\ unobs /\ mpc = "idle" /\ free_ /\ do_run_)
          => ~(tpc = "sleep" /\ ~signal_))

\* C5 - Trigger-reveal duration: a drawer the worker revealed for a trigger
\* (Revealed with the pointer free and no handler running) is never hidden by
\* the worker after a sleep that ended by a wake signal.
C5_NoHideOnSignalWake ==
  ~(/\ HoverMode /\ do_run_ /\ mpc = "idle" /\ free_ /\ reveal
    /\ woke = "signal"
    /\ tpc = "thread_hide_reveal")

\* C6 - Mutual exclusion on shared state: a handler in the middle of its
\* accesses to free_, reset_, the marker or the revealer never coexists with
\* the worker in the middle of the accesses of its loop body.
C6_MutualExclusion ==
  ~(MainAccessing /\ ThreadAccessing)

\* C7 - Cancellation performs no final action: once stop() has cleared do_run_
\* and woken the worker, neither the marker nor the revealer changes any more.
C7_NoActionAfterCancel ==
  [][~do_run_ => (prelight' = prelight /\ reveal' = reveal)]_vars

\* C8 - Cancellation liveness: after stop(), the worker terminates, from any
\* point of its loop and with a finite or a disabled interval.
C8_CancellationLiveness ==
  (HoverMode /\ ~do_run_) ~> (tpc = "done")

\* The worker of a Group with a disabled interval has been woken by stop() and
\* has terminated; the destructor has joined it.
C8_Witness ==
  HoverMode /\ ~finite /\ ~do_run_ /\ tpc = "done" /\ mpc = "destroyed"

\* C9 - Non-drawer inertness: when is_drawer is false, no pointer, click or
\* refresh event changes the revealer or the marker, or issues a wake.
C9_NonDrawerInert ==
  [][(~is_drawer /\ mpc' \notin {"joining", "destroyed"})
       => (reveal' = reveal /\ prelight' = prelight /\ signal_' = signal_
           /\ free_' = free_ /\ reset_' = reset_)]_vars

\* C10 - Click-exclusivity: in click-to-reveal mode the revealer and the marker
\* change only inside the handling of a primary click, real or synthesized by a
\* refresh with the configured code; never inside pointer-enter or leave.
C10_ClickExclusive ==
  [][(click_to_reveal /\ (reveal' # reveal \/ prelight' # prelight))
       => last \in {"click_primary", "refresh_match"}]_vars

\* A full pointer-leave has been handled in click-to-reveal mode with the drawer
\* Revealed, and it is still Revealed.
C10_Witness ==
  click_to_reveal /\ last = "leave" /\ mpc = "idle" /\ reveal /\ prelight

\* A call of show_group or hide_group is in progress on the main thread.
MainInTransition == mpc \in {"show_flags", "show_reveal", "hide_flags", "hide_reveal"}

\* A call of show_group or hide_group is in progress on the worker.
ThreadInTransition ==
  tpc \in {"thread_show_flags", "thread_show_reveal", "thread_hide_flags",
           "thread_hide_reveal"}

\* C11 - Click toggle: in click-to-reveal mode, between two events the drawer is
\* Revealed (and marked active) iff the number of primary clicks handled so
\* far, real ones and those built by refresh for the configured code together,
\* is odd; and as long as the Group lives reset_ is never set and no wake is
\* issued.
C11_ClickToggle ==
  click_to_reveal =>
    /\ (mpc = "idle" => ((reveal <=> clicks = 1) /\ (prelight <=> clicks = 1)))
    /\ (do_run_ => (~reset_ /\ ~signal_))

\* A refresh with the configured code has just toggled a Revealed drawer back
\* to Hidden: an even number of toggles.
C11_Witness ==
  /\ click_to_reveal /\ last = "refresh_match" /\ mpc = "idle"
  /\ ~quiet /\ clicks = 0 /\ ~reveal /\ ~prelight

\* C12 - Disabled interval: with interval "once" the worker's sleep never ends
\* by expiry, and while the Group lives a Revealed drawer becomes Hidden only
\* by the hide_group of a full pointer-leave.
C12_DisabledInterval ==
  /\ []((HoverMode /\ ~finite) => woke # "timeout")
  /\ [][(HoverMode /\ ~finite /\ do_run_ /\ reveal /\ ~reveal')
          => (last = "leave" /\ mpc = "hide_reveal")]_vars

\* C13 - Active marker consistency: whenever neither thread is inside
\* show_group or hide_group, the PRELIGHT marker is set iff the drawer is
\* Revealed.
C13_MarkerConsistent ==
  (~MainInTransition /\ ~ThreadInTransition) => (prelight <=> reveal)

\* The number of children added so far.
NumChildren == Len(box) + Len(revealer_box)

\* C14 - Child placement: after any sequence of addWidget calls, a drawer holds
\* its first child in box with no class and every later child in revealer_box,
\* in call order, each tagged with the children class; a non-drawer holds all
\* its children in box, in call order, untagged.  A placed child never moves:
\* both sequences and the set of tagged children only grow at their end.
C14_ChildPlacement ==
  /\ [](/\ (is_first_widget <=> NumChildren = 0)
        /\ IF is_drawer
             THEN /\ box = (IF NumChildren = 0 THEN << >> ELSE <<1>>)
                  /\ revealer_box = (IF NumChildren = 0 THEN << >>
                                       ELSE [i \in 1..(NumChildren - 1) |-> i + 1])
                  /\ classes = 2..NumChildren
             ELSE /\ box = [i \in 1..NumChildren |-> i]
                  /\ revealer_box = << >>
                  /\ classes = {})
  /\ [][/\ Len(box') >= Len(box) /\ SubSeq(box', 1, Len(box)) = box
        /\ Len(revealer_box') >= Len(revealer_box)
        /\ SubSeq(revealer_box', 1, Len(revealer_box)) = revealer_box
        /\ classes \subseteq classes']_vars

\* A drawer with three children: the first in box, the two later ones in
\* revealer_box and tagged.
C14_Witness ==
  is_drawer /\ box = <<1>> /\ revealer_box = <<2, 3>> /\ classes = {2, 3}

\* C15 - Ignored triggers: refresh returns at once, leaving the revealer, the
\* marker, free_ and reset_ as they are and issuing no wake, when the code is
\* not the configured one (any mode), or when it is, the Group is in hover mode
\* and the pointer is not free.
C15_IgnoredTriggers ==
  [][(refresh /\ (last' = "refresh_other"
                   \/ (last' = "refresh_match" /\ HoverMode /\ ~free_)))
       => (mpc' = "idle" /\ UNCHANGED <<reveal, prelight, free_, reset_, signal_>>)]_vars

\* A refresh with the configured code has been handled in hover mode with the
\* pointer inside: nothing was requested and no wake was issued.
C15_Witness ==
  /\ HoverMode /\ last = "refresh_match" /\ mpc = "idle"
  /\ ~free_ /\ ~reset_ /\ ~signal_ /\ tpc = "sleep"

\* A step of hide_group, on either thread.
HideStep ==
  main_hide_flags \/ main_hide_reveal \/ thread_hide_flags \/ thread_hide_reveal

\* C16 - Idempotence of hide: a step of hide_group taken while the drawer is
\* Hidden and unmarked leaves it Hidden and unmarked, whether it belongs to a
\* pointer-leave or to the worker's step 3.
C16_HideIdempotent ==
  [][(HideStep /\ ~reveal /\ ~prelight) => (~reveal' /\ ~prelight')]_vars

\* With the drawer Hidden, the hide_group of a pointer-leave and the hide_group
\* of the worker's step 3 are both at their second call.
C16_Witness ==
  /\ HoverMode /\ last = "leave" /\ mpc = "hide_reveal" /\ tpc = "thread_hide_reveal"
  /\ quiet /\ ~reveal /\ ~prelight

\* C17 - Guard-failing pointer and click events are no-ops: a pointer-leave
\* into a descendant, a click with another button than the primary one, and a
\* primary click in hover mode return at once and leave the revealer, the
\* marker, free_ and reset_ unchanged.
C17_GuardFailingNoOps ==
  [][((handleMouseLeave /\ last' = "leave_inferior")
        \/ (handleToggle /\ (last' = "click_other" \/ HoverMode)))
       => (mpc' = "idle" /\ UNCHANGED <<reveal, prelight, free_, reset_>>)]_vars

\* A primary click has been handled in hover mode with the pointer inside and
\* the drawer Revealed.
C17_Witness ==
  /\ HoverMode /\ last = "click_primary" /\ mpc = "idle"
  /\ ~free_ /\ reveal /\ prelight

\* C18 - Timer task existence: a worker exists iff the Group is a drawer that
\* is not click-to-reveal; in the other modes the revealer and the marker
\* change only inside show_group/hide_group called by a handler.
C18_TaskExistence ==
  /\ []((tpc # "none") <=> HoverMode)
  /\ [][(~HoverMode /\ (reveal' # reveal \/ prelight' # prelight))
          => MainInTransition]_vars

\* A click-to-reveal drawer has been revealed by a primary click, with no
\* worker.
C18_Witness ==
  /\ click_to_reveal /\ tpc = "none"
  /\ last = "click_primary" /\ mpc = "idle" /\ reveal

\* C19 - Eventual auto-hide: in hover mode with a finite interval, if from some
\* point on the pointer stays free and no handler runs any more (no pointer
\* event, no accepted trigger, no destruction), the scheduled worker brings
\* the drawer to Hidden with reset_ false, for good.
C19_EventualAutoHide ==
  <>[](HoverMode /\ finite /\ free_ /\ mpc = "idle") => <>[](~reveal /\ ~reset_)

\* The worker has observed an accepted trigger (and so revealed the drawer),
\* slept until the interval elapsed and hidden the drawer again.
C19_Witness ==
  /\ HoverMode /\ finite /\ free_ /\ mpc = "idle"
  /\ last = "refresh_match" /\ ~unobs
  /\ woke = "timeout" /\ tpc = "loop" /\ ~reveal /\ ~prelight /\ ~reset_

\* C20 - No spontaneous reveal: in hover mode the worker is inside its step-1
\* show_group only with reset_ set by an accepted trigger and not cleared
\* since; and as long as no pointer-enter and no accepted trigger happened,
\* the drawer is Hidden, from construction on.
C20_NoSpontaneousReveal ==
  HoverMode =>
    /\ (quiet => (~reveal /\ ~prelight /\ ~reset_))
    /\ (tpc \in {"thread_show_flags", "thread_show_reveal", "clear_reset"}
          => (reset_ /\ ~quiet))

\* With no pointer-enter and no accepted trigger so far, the worker has slept a
\* whole interval, come back to step 1 and found nothing to reveal.
C20_Witness ==
  /\ HoverMode /\ quiet /\ last = "refresh_other"
  /\ woke = "timeout" /\ tpc = "step1_reset" /\ ~reveal

====
